---- MODULE Spec2Model ----
(***************************************************************************)
(* One invocation of Support/main.py, the TextMate ESLint bundle script.   *)
(*                                                                         *)
(* The script is sequential.  Its state is the command line, the editor's  *)
(* environment, the position in the code, the subprocesses it has launched *)
(* (the linter through validator.Validator, the editor helper "mate"       *)
(* through subprocess.call), what it has written to standard output, and   *)
(* how it ended.                                                           *)
(*                                                                         *)
(* Representation of Python values:                                        *)
(*   - None is the string None below, different from every other string    *)
(*     of the model;                                                       *)
(*   - os.environ is a function whose DOMAIN is the set of variables that  *)
(*     are set;                                                            *)
(*   - TM_SCOPE and TM_INPUT_START_LINE are tuples of one-character        *)
(*     strings, so that str.startswith and int() are computed, not assumed;*)
(*   - TM_FILEPATH is the tuple of its path components, so that            *)
(*     os.path.basename is computed;                                       *)
(*   - an issue dict is a record; the optional key 'shortname' is in the   *)
(*     record's DOMAIN or not;                                             *)
(*   - a rendered template is the pair of the template's name and the      *)
(*     context handed to AshesEnv.render (the templates are assets).       *)
(* The editor always sets TM_SCOPE, TM_MATE and TM_BUNDLE_SUPPORT for a    *)
(* bundle command; TM_FILEPATH is absent for an unsaved buffer.            *)
(***************************************************************************)
EXTENDS Integers, Sequences, FiniteSets, TLC

VARIABLES argv, env, pc, called, issues, marks, procs, running, stdout,
          status, err

vars == <<argv, env, pc, called, issues, marks, procs, running, stdout,
          status, err>>

\* Longest issue list the linter returns in the model.
MaxIssues == 3

None == "None"

\* Python truthiness of a str-or-None value.
Truthy(v) == v \notin {None, ""}

\* os.environ.get(key, default)
EnvGet(e, key, default) == IF key \in DOMAIN e THEN e[key] ELSE default

EmptyEnv == [k \in {} |-> None]

\* Either the variable is unset, or it has one of the values.
Optional(key, values) == {EmptyEnv} \cup {key :> v : v \in values}

BoundedSeq(S, n) == UNION {[1..k -> S] : k \in 0..n}

-----------------------------------------------------------------------------
(* Inputs: command line, environment, results of the linter.               *)

\* sys.argv, as the set of its elements (the code only tests membership).
Argvs == SUBSET {"--html", "--fix"}

ScopeJs       == <<"s","o","u","r","c","e",".","j","s">>
ScopeJsJquery == <<"s","o","u","r","c","e",".","j","s",".","j","q">>
ScopeHtml     == <<"t","e","x","t",".","h","t","m","l">>
ScopeShort    == <<"s","o","u","r","c","e">>

Scopes == {ScopeJs, ScopeJsJquery, ScopeHtml, ScopeShort}

FilePaths == {<<"Users", "me", "proj", "app.js">>}

StartLines == {<<"1", "2">>}

Envs ==
    { (("TM_BUNDLE_SUPPORT" :> "/Bundles/eslint.tmbundle/Support")
        @@ ("TM_MATE" :> "/usr/local/bin/mate")
        @@ ("TM_SCOPE" :> sc) @@ fp @@ ex @@ sl @@ dirs) :
        sc \in Scopes,
        fp \in Optional("TM_FILEPATH", FilePaths),
        ex \in Optional("TM_JAVASCRIPT_ESLINT_ESLINT", {"/opt/bin/eslint_d"}),
        sl \in Optional("TM_INPUT_START_LINE", StartLines),
        dirs \in { EmptyEnv,
                   "TM_DIRECTORY" :> "/Users/me/proj",
                   "TM_PROJECT_DIRECTORY" :> "/Users/me" } }

\* The issue dicts validator.Validator.run produces.
IssueKinds ==
    { [line |-> 3, character |-> 5, reason |-> "Missing semicolon",
       shortname |-> "semi", isError |-> TRUE, isWarning |-> FALSE],
      [line |-> 7, character |-> 1, reason |-> "Unexpected console statement",
       shortname |-> "no-console", isError |-> FALSE, isWarning |-> TRUE],
      [line |-> 1, character |-> 0, reason |-> "Parsing error",
       isError |-> TRUE, isWarning |-> FALSE],
      [line |-> 9, character |-> 2, reason |-> "File ignored",
       isError |-> FALSE, isWarning |-> FALSE] }

IssueLists == BoundedSeq(IssueKinds, MaxIssues)

\* The validator.ValidateError values: a message and a search path or None.
ValidateErrors ==
    { [message |-> "Could not find or launch eslint", path |-> None],
      [message |-> "Cannot find module eslint-config-x",
       path |-> "/Users/me/proj"] }

\* time.strftime('%c')
Timestamps == {"Fri Oct 30 08:00:00 2026"}

-----------------------------------------------------------------------------
(* Pure helpers of main.py.                                                *)

\* str.startswith
StartsWith(s, prefix) ==
    /\ Len(s) >= Len(prefix)
    /\ SubSeq(s, 1, Len(prefix)) = prefix

DigitValue(c) ==
    CASE c = "0" -> 0 [] c = "1" -> 1 [] c = "2" -> 2 [] c = "3" -> 3
      [] c = "4" -> 4 [] c = "5" -> 5 [] c = "6" -> 6 [] c = "7" -> 7
      [] c = "8" -> 8 [] c = "9" -> 9

RECURSIVE ParseInt(_)
\* int() of a decimal string
ParseInt(s) ==
    IF s = <<>> THEN 0
    ELSE 10 * ParseInt(SubSeq(s, 1, Len(s) - 1)) + DigitValue(s[Len(s)])

RECURSIVE PathStr(_)
\* The path string of a tuple of path components.
PathStr(p) == IF p = <<>> THEN "" ELSE "/" \o Head(p) \o PathStr(Tail(p))

\* os.path.basename
Basename(p) == p[Len(p)]

RECURSIVE Join(_, _)
\* sep.join(parts)
Join(sep, parts) ==
    IF parts = <<>> THEN ""
    ELSE IF Len(parts) = 1 THEN parts[1]
    ELSE parts[1] \o sep \o Join(sep, Tail(parts))

\* BASE_PATH, line 17
BASE_PATH(e) == "tm-file://" \o e["TM_BUNDLE_SUPPORT"]

\* ASHES_ENV.render(template, context)
Render(template, context) == [template |-> template, context |-> context]

\* What print(text) appends to standard output.
Written(text) == [text |-> text]


-----------------------------------------------------------------------------
(* validate(), lines 26-34: the arguments handed to the_validator.run.     *)

\* line 26 and line 166
EslintCommand(e) == EnvGet(e, "TM_JAVASCRIPT_ESLINT_ESLINT", "eslint")

\* line 29
Filename(e) ==
    IF "TM_FILEPATH" \in DOMAIN e THEN PathStr(e["TM_FILEPATH"]) ELSE None

\* line 30 and line 162
IsSourceJs(e) == StartsWith(e["TM_SCOPE"], ScopeJs)

\* line 31
LineOffset(e) ==
    (IF "TM_INPUT_START_LINE" \in DOMAIN e
     THEN ParseInt(e["TM_INPUT_START_LINE"]) ELSE 1) - 1

\* lines 32-34 and lines 169-171
Cwd(e) ==
    LET cwd == EnvGet(e, "TM_DIRECTORY", None)
    IN  IF ~Truthy(cwd) THEN EnvGet(e, "TM_PROJECT_DIRECTORY", None) ELSE cwd

\* The linter subprocess of the_validator.run, lines 37-42.
RunCall(e) ==
    [call |-> "run", eslint |-> EslintCommand(e), filename |-> Filename(e),
     input_is_html |-> ~IsSourceJs(e), line_offset |-> LineOffset(e),
     cwd |-> Cwd(e)]

\* The linter subprocess of the_validator.fix, line 173.
FixCall(e) ==
    [call |-> "fix", eslint |-> EslintCommand(e),
     filename |-> PathStr(e["TM_FILEPATH"]), cwd |-> Cwd(e)]

ErrorTemplateSwapped(error) ==
    IF Truthy(error.path) THEN "error_eslint_other.html"
    ELSE "error_eslint_path.html"

\* lines 49-53: which error template is rendered
ErrorTemplate(error) ==
    IF Truthy(error.path) THEN "error_eslint_path.html"
    ELSE "error_eslint_other.html"

\* lines 44-50: the context of the error page
ErrorContext(e, error, ts) ==
    [BASE_PATH |-> BASE_PATH(e), timestamp |-> ts,
     errorMessage |-> error.message]
    @@ (IF Truthy(error.path) THEN "searchPath" :> error.path ELSE EmptyEnv)

-----------------------------------------------------------------------------
(* The counting loops and the strings built from the counts.               *)

RECURSIVE ErrorCount(_)
\* lines 75-80 and 106-111
ErrorCount(iss) ==
    IF iss = <<>> THEN 0
    ELSE (IF Head(iss).isError THEN 1 ELSE 0) + ErrorCount(Tail(iss))

RECURSIVE WarningCount(_)
\* lines 76-82 and 107-113
WarningCount(iss) ==
    IF iss = <<>> THEN 0
    ELSE (IF Head(iss).isWarning THEN 1 ELSE 0) + WarningCount(Tail(iss))

HasErrorsOnly(error_count, warning_count) == error_count > 0

\* line 84
HasErrorsOrWarnings(error_count, warning_count) ==
    error_count + warning_count > 0

\* lines 64-94: the context of the report
ReportContext(e, iss) ==
    LET error_count   == ErrorCount(iss)
        warning_count == WarningCount(iss)
        saved         == "TM_FILEPATH" \in DOMAIN e
    IN  [BASE_PATH |-> BASE_PATH(e),
         issues |-> iss,
         targetFilename |-> IF saved THEN Basename(e["TM_FILEPATH"])
                            ELSE "(current unsaved file)",
         targetUrl |-> IF saved
                       THEN "txmt://open?url=file://"
                                \o PathStr(e["TM_FILEPATH"])
                       ELSE "txmt://open?line=1&amp;column=0",
         hasErrorsOrWarnings |->
             HasErrorsOrWarnings(error_count, warning_count)]
        @@ (IF error_count = 1 THEN "errorCountString" :> "1 error"
            ELSE IF error_count # 0
                 THEN "errorCountString" :> (ToString(error_count) \o " errors")
            ELSE EmptyEnv)
        @@ (IF warning_count = 1 THEN "warningCountString" :> "1 warning"
            ELSE IF warning_count # 0
                 THEN "warningCountString" :>
                          (ToString(warning_count) \o " warnings")
            ELSE EmptyEnv)

QuietResultAlwaysPlural(iss) ==
    LET error_count   == ErrorCount(iss)
        warning_count == WarningCount(iss)
        parts ==
            (IF error_count # 0
             THEN <<ToString(error_count) \o " errors">> ELSE <<>>)
            \o (IF warning_count > 0
                THEN <<ToString(warning_count) \o " warnings">> ELSE <<>>)
        result == Join(", ", parts)
    IN  IF result # ""
        THEN result \o "\r\rPress Shift-Ctrl-V to view the full report."
        ELSE result

\* lines 106-122: the summary string of quiet()
QuietResult(iss) ==
    LET error_count   == ErrorCount(iss)
        warning_count == WarningCount(iss)
        parts ==
            (IF error_count # 0
             THEN <<ToString(error_count) \o " error"
                        \o (IF error_count > 1 THEN "s" ELSE "")>>
             ELSE <<>>)
            \o (IF warning_count > 0
                THEN <<ToString(warning_count) \o " warning"
                           \o (IF warning_count > 1 THEN "s" ELSE "")>>
                ELSE <<>>)
        result == Join(", ", parts)
    IN  IF result # ""
        THEN result \o "\r\rPress Shift-Ctrl-V to view the full report."
        ELSE result

-----------------------------------------------------------------------------
(* update_gutter_marks: the marks and the editor-helper command lines.     *)

\* lines 137-141: the (msg, pos) pair of one issue
MarkOf(item) ==
    LET msg == item.reason
               \o (IF "shortname" \in DOMAIN item
                   THEN " (" \o item.shortname \o ")" ELSE "")
        pos == ToString(item.line) \o ":" \o ToString(item.character)
    IN  <<msg, pos>>

MarksReversed(iss) ==
    [i \in 1..Len(iss) |-> MarkOf(iss[Len(iss) + 1 - i])]

\* lines 134-141: the list of marks, one per issue, in order
Marks(iss) == [i \in 1..Len(iss) |-> MarkOf(iss[i])]

\* line 143 and line 176
ClearMarkArgv(mate, file_path) ==
    [argv |-> <<mate, "--clear-mark=warning", file_path>>]

\* lines 146-153
SetMarkArgv(mate, mark, file_path) ==
    [argv |-> <<mate, "--set-mark=warning:[ESLint] " \o mark[1],
                "--line=" \o mark[2], file_path>>]

-----------------------------------------------------------------------------
(* The program.                                                            *)

Init ==
    /\ argv \in Argvs
    /\ env \in Envs
    /\ pc = "main"
    /\ called = <<>>
    /\ issues = <<>>
    /\ marks = <<>>
    /\ procs = <<>>
    /\ running = FALSE
    /\ stdout = <<>>
    /\ status = "running"
    /\ err = <<>>

DispatchFixFirst(args) ==
    IF "--fix" \in args THEN "fix"
    ELSE IF "--html" \in args THEN "full_report"
    ELSE "quiet"

\* lines 180-185: the mode function __main__ calls
Dispatch(args) ==
    IF "--html" \in args THEN "full_report"
    ELSE IF "--fix" \in args THEN "fix"
    ELSE "quiet"

\* lines 179-185, and the first line of full_report (62) or quiet (103)
Main ==
    /\ pc = "main"
    /\ called' = Append(called, Dispatch(argv))
    /\ pc' = IF Dispatch(argv) = "fix" THEN "fix" ELSE "validate"
    /\ UNCHANGED <<argv, env, issues, marks, procs, running, stdout,
                   status, err>>

\* validate(), lines 26-42: the linter is launched by the_validator.run
Validate ==
    /\ pc = "validate"
    /\ procs' = Append(procs, RunCall(env))
    /\ running' = TRUE
    /\ pc' = "validator.run"
    /\ UNCHANGED <<argv, env, called, issues, marks, stdout, status, err>>

\* lines 37-42 and 57: the linter has finished and run returns the issues
ValidateReturns(iss) ==
    /\ pc = "validator.run"
    /\ running' = FALSE
    /\ issues' = iss
    /\ pc' = IF called[Len(called)] = "full_report" THEN "full_report"
             ELSE "update_gutter_marks"
    /\ UNCHANGED <<argv, env, called, marks, procs, stdout, status, err>>

ValidateFailsPropagates(error, ts) ==
    /\ pc = "validator.run"
    /\ running' = FALSE
    /\ err' = Append(err, error)
    /\ IF called[Len(called)] = "full_report"
       THEN /\ stdout' = Append(stdout,
                   Render(ErrorTemplate(error), ErrorContext(env, error, ts)))
            /\ status' = "SystemExit"
       ELSE /\ stdout' = stdout
            /\ status' = "ValidateError"
    /\ pc' = "done"
    /\ UNCHANGED <<argv, env, called, issues, marks, procs>>

\* lines 43-55: run raises ValidateError; the error page is printed and the
\* script ends with sys.exit()
ValidateFails(error, ts) ==
    /\ pc = "validator.run"
    /\ running' = FALSE
    /\ err' = Append(err, error)
    /\ stdout' = Append(stdout,
           Render(ErrorTemplate(error), ErrorContext(env, error, ts)))
    /\ status' = "SystemExit"
    /\ pc' = "done"
    /\ UNCHANGED <<argv, env, called, issues, marks, procs>>

\* full_report(), lines 64-97
FullReport ==
    /\ pc = "full_report"
    /\ stdout' = Append(stdout,
           Render("report.html", ReportContext(env, issues)))
    /\ status' = "returned"
    /\ pc' = "done"
    /\ UNCHANGED <<argv, env, called, issues, marks, procs, running, err>>

UpdateGutterMarksDefaultPath ==
    /\ pc = "update_gutter_marks"
    /\ marks' = Marks(issues)
    /\ procs' = Append(procs,
           ClearMarkArgv(env["TM_MATE"], EnvGet(env, "TM_FILEPATH", None)))
    /\ running' = TRUE
    /\ pc' = "set_marks"
    /\ UNCHANGED <<argv, env, called, issues, stdout, status, err>>

\* update_gutter_marks(), lines 131-143: os.environ['TM_FILEPATH'] raises
\* KeyError for an unsaved buffer; otherwise the marks are built and the
\* clear command is launched
UpdateGutterMarks ==
    /\ pc = "update_gutter_marks"
    /\ IF "TM_FILEPATH" \notin DOMAIN env
       THEN /\ status' = "KeyError"
            /\ pc' = "done"
            /\ UNCHANGED <<marks, procs, running>>
       ELSE /\ marks' = Marks(issues)
            /\ procs' = Append(procs,
                   ClearMarkArgv(env["TM_MATE"], PathStr(env["TM_FILEPATH"])))
            /\ running' = TRUE
            /\ pc' = "set_marks"
            /\ status' = status
    /\ UNCHANGED <<argv, env, called, issues, stdout, err>>

\* subprocess.call returns: the editor helper has exited (lines 143, 146, 176)
SubprocessExit ==
    /\ pc \in {"set_marks", "fix_clear"}
    /\ running
    /\ running' = FALSE
    /\ UNCHANGED <<argv, env, pc, called, issues, marks, procs, stdout,
                   status, err>>

\* lines 145-153: one iteration of the loop over marks
SetMark ==
    /\ pc = "set_marks"
    /\ ~running
    /\ marks # <<>>
    /\ procs' = Append(procs,
           SetMarkArgv(env["TM_MATE"], Head(marks),
                       PathStr(env["TM_FILEPATH"])))
    /\ marks' = Tail(marks)
    /\ running' = TRUE
    /\ UNCHANGED <<argv, env, pc, called, issues, stdout, status, err>>

QuietSummaryNoWait ==
    /\ pc = "set_marks"
    /\ marks = <<>>
    /\ stdout' = Append(stdout, Written(QuietResult(issues)))
    /\ status' = "returned"
    /\ pc' = "done"
    /\ UNCHANGED <<argv, env, called, issues, marks, procs, running, err>>

\* quiet(), lines 106-123, after update_gutter_marks has returned
QuietSummary ==
    /\ pc = "set_marks"
    /\ ~running
    /\ marks = <<>>
    /\ stdout' = Append(stdout, Written(QuietResult(issues)))
    /\ status' = "returned"
    /\ pc' = "done"
    /\ UNCHANGED <<argv, env, called, issues, marks, procs, running, err>>

FixIgnoresScope ==
    /\ pc = "fix"
    /\ IF "TM_FILEPATH" \notin DOMAIN env
       THEN /\ status' = "returned"
            /\ pc' = "done"
            /\ UNCHANGED <<procs, running>>
       ELSE /\ procs' = Append(procs, FixCall(env))
            /\ running' = TRUE
            /\ pc' = "validator.fix"
            /\ status' = status
    /\ UNCHANGED <<argv, env, called, issues, marks, stdout, err>>

\* fix(), lines 158-173: the two silent returns, else the linter's fix is
\* launched by the_validator.fix
Fix ==
    /\ pc = "fix"
    /\ IF "TM_FILEPATH" \notin DOMAIN env
       THEN /\ status' = "returned"
            /\ pc' = "done"
            /\ UNCHANGED <<procs, running>>
       ELSE IF ~IsSourceJs(env)
       THEN /\ status' = "returned"
            /\ pc' = "done"
            /\ UNCHANGED <<procs, running>>
       ELSE /\ procs' = Append(procs, FixCall(env))
            /\ running' = TRUE
            /\ pc' = "validator.fix"
            /\ status' = status
    /\ UNCHANGED <<argv, env, called, issues, marks, stdout, err>>

FixReturnsNoClear ==
    /\ pc = "validator.fix"
    /\ running' = FALSE
    /\ status' = "returned"
    /\ pc' = "done"
    /\ UNCHANGED <<argv, env, called, issues, marks, procs, stdout, err>>

\* lines 173-176: the_validator.fix returns and the clear command is launched
FixReturns ==
    /\ pc = "validator.fix"
    /\ procs' = Append(procs,
           ClearMarkArgv(env["TM_MATE"], PathStr(env["TM_FILEPATH"])))
    /\ running' = TRUE
    /\ pc' = "fix_clear"
    /\ UNCHANGED <<argv, env, called, issues, marks, stdout, status, err>>

\* line 173: the_validator.fix raises ValidateError, which nothing catches
FixFails(error) ==
    /\ pc = "validator.fix"
    /\ running' = FALSE
    /\ err' = Append(err, error)
    /\ status' = "ValidateError"
    /\ pc' = "done"
    /\ UNCHANGED <<argv, env, called, issues, marks, procs, stdout>>

\* fix() returns after line 176
FixDone ==
    /\ pc = "fix_clear"
    /\ ~running
    /\ status' = "returned"
    /\ pc' = "done"
    /\ UNCHANGED <<argv, env, called, issues, marks, procs, running, stdout,
                   err>>

Next ==
    \/ Main
    \/ Validate
    \/ \E iss \in IssueLists : ValidateReturns(iss)
    \/ \E error \in ValidateErrors, ts \in Timestamps : ValidateFails(error, ts)
    \/ FullReport
    \/ UpdateGutterMarks
    \/ SubprocessExit
    \/ SetMark
    \/ QuietSummary
    \/ Fix
    \/ FixReturns
    \/ \E error \in ValidateErrors : FixFails(error)
    \/ FixDone

Spec == Init /\ [][Next]_vars

-----------------------------------------------------------------------------
(* Vocabulary of the properties.                                           *)

Done == pc = "done"

Mode == IF called = <<>> THEN "none" ELSE called[1]

Saved == "TM_FILEPATH" \in DOMAIN env

TargetFile == PathStr(env["TM_FILEPATH"])

IsMateCall(p) == "argv" \in DOMAIN p

IsLinterCall(p) == "call" \in DOMAIN p

IsSetMarkCall(p) == IsMateCall(p) /\ Len(p.argv) = 4

MateCalls == SelectSeq(procs, IsMateCall)

LinterCalls == SelectSeq(procs, IsLinterCall)

NumErrors == Cardinality({i \in DOMAIN issues : issues[i].isError})

NumWarnings == Cardinality({i \in DOMAIN issues : issues[i].isWarning})

IsPage(out, templates) ==
    /\ Len(out) = 1
    /\ "template" \in DOMAIN out[1]
    /\ out[1].template \in templates

ErrorPages == {"error_eslint_path.html", "error_eslint_other.html"}

\* The label and position the editor helper is given for an issue.
ExpectedLabel(item) ==
    IF "shortname" \in DOMAIN item
    THEN item.reason \o " (" \o item.shortname \o ")"
    ELSE item.reason

ExpectedSetMark(item) ==
    [argv |-> << env["TM_MATE"],
                 "--set-mark=warning:[ESLint] " \o ExpectedLabel(item),
                 "--line=" \o ToString(item.line) \o ":"
                     \o ToString(item.character),
                 TargetFile >>]

ExpectedClearMark ==
    [argv |-> <<env["TM_MATE"], "--clear-mark=warning", TargetFile>>]

ExpectedGutterCalls ==
    <<ExpectedClearMark>>
        \o [i \in 1..Len(issues) |-> ExpectedSetMark(issues[i])]

IsPrefix(s, t) == Len(s) <= Len(t) /\ SubSeq(t, 1, Len(s)) = s

Hint == "\r\rPress Shift-Ctrl-V to view the full report."

ExpectedErrorPart ==
    IF NumErrors = 1 THEN "1 error" ELSE ToString(NumErrors) \o " errors"

ExpectedWarningPart ==
    IF NumWarnings = 1 THEN "1 warning"
    ELSE ToString(NumWarnings) \o " warnings"

ExpectedSummary ==
    IF NumErrors = 0 /\ NumWarnings = 0 THEN ""
    ELSE IF NumWarnings = 0 THEN ExpectedErrorPart \o Hint
    ELSE IF NumErrors = 0 THEN ExpectedWarningPart \o Hint
    ELSE ExpectedErrorPart \o ", " \o ExpectedWarningPart \o Hint

-----------------------------------------------------------------------------
(* Properties.                                                             *)

\* C1: once update_gutter_marks has started issuing commands, the editor
\* helper calls are the clear on the target file followed by one set-mark per
\* issue, in the order of the issue list, none dropped and none merged; the
\* clear is there even for the empty list, and when the loop has ended the
\* calls are exactly the clear and len(issues) set-marks.
C1_GutterMarksClearThenSetInOrder ==
    (Mode = "quiet" /\ (pc = "set_marks" \/ (Done /\ status = "returned")))
        => /\ Len(MateCalls) >= 1
           /\ IsPrefix(MateCalls, ExpectedGutterCalls)
           /\ Len(MateCalls) = 1 + Len(issues) - Len(marks)
           /\ (marks = <<>> => MateCalls = ExpectedGutterCalls)

C1_Witness ==
    /\ Mode = "quiet" /\ Done /\ status = "returned"
    /\ Len(issues) = 3 /\ issues[1] = issues[3] /\ issues[1] # issues[2]
    /\ MateCalls = ExpectedGutterCalls
    /\ Len(MateCalls) = 4

\* C2 as stated: a ValidationFailure gives an error page in HTML report mode
\* and an unhandled failure, with nothing printed, in quiet and autofix mode;
\* the linter is run once.
C2_Original ==
    (Done /\ err # <<>>)
        => /\ Len(err) = 1 /\ Len(LinterCalls) = 1
           /\ (Mode = "full_report"
                  => IsPage(stdout, ErrorPages) /\ status = "SystemExit")
           /\ (Mode \in {"quiet", "fix"}
                  => stdout = <<>> /\ status = "ValidateError")

\* C2 amended: a ValidationFailure gives an error page followed by sys.exit()
\* in HTML report mode and in quiet mode (both call validate()), and an
\* unhandled failure with nothing printed in autofix mode; in no mode is the
\* linter run a second time.
C2_FailureSurfacedPerMode ==
    (Done /\ err # <<>>)
        => /\ Len(err) = 1 /\ Len(LinterCalls) = 1
           /\ (Mode \in {"full_report", "quiet"}
                  => IsPage(stdout, ErrorPages) /\ status = "SystemExit")
           /\ (Mode = "fix" => stdout = <<>> /\ status = "ValidateError")

C2_Witness ==
    /\ Mode = "quiet" /\ Done /\ err # <<>>
    /\ IsPage(stdout, ErrorPages)
    /\ status = "SystemExit"

\* C3: after the dispatch exactly one mode function has been called: the HTML
\* report if --html is given (also with --fix, and then the linter's fix never
\* runs), else autofix if --fix is given, else quiet.
C3_ExactlyOneModeByPriority ==
    /\ (pc = "main" => called = <<>>)
    /\ (pc # "main"
          => /\ Len(called) = 1
             /\ (called[1] = "full_report") <=> ("--html" \in argv)
             /\ (called[1] = "fix")
                    <=> ("--fix" \in argv /\ "--html" \notin argv)
             /\ (called[1] = "quiet")
                    <=> ("--fix" \notin argv /\ "--html" \notin argv))
    /\ ("--html" \in argv
          => \A i \in DOMAIN procs :
                 IsLinterCall(procs[i]) => procs[i].call # "fix")

C3_Witness ==
    /\ argv = {"--html", "--fix"}
    /\ Done /\ called = <<"full_report">>
    /\ IsPage(stdout, {"report.html"})

\* C4: in HTML report mode a ValidationFailure ends the run at once with
\* exactly one page on standard output: the path template if the failure
\* carries a search path, the other error template if not; the report is not
\* rendered.
C4_HtmlFailureOneErrorPageThenExit ==
    (Mode = "full_report" /\ err # <<>>)
        => /\ Done /\ status = "SystemExit"
           /\ Len(err) = 1
           /\ IsPage(stdout,
                  IF err[1].path # None THEN {"error_eslint_path.html"}
                  ELSE {"error_eslint_other.html"})
           /\ stdout[1].context.errorMessage = err[1].message

C4_Witness ==
    /\ Mode = "full_report" /\ Done
    /\ err # <<>> /\ err[1].path = "/Users/me/proj"
    /\ IsPage(stdout, {"error_eslint_path.html"})
    /\ stdout[1].context.searchPath = "/Users/me/proj"

\* C5: autofix on an unsaved buffer, or on a scope that does not start with
\* source.js, returns normally having launched no subprocess, printed nothing
\* and raised nothing.
C5_FixSilentNoOp ==
    (Mode = "fix" /\ pc # "fix"
        /\ (~Saved \/ ~StartsWith(env["TM_SCOPE"], ScopeJs)))
        => /\ Done /\ status = "returned"
           /\ procs = <<>> /\ ~running
           /\ stdout = <<>>
           /\ err = <<>>

C5_Witness ==
    /\ Mode = "fix" /\ Done /\ status = "returned"
    /\ Saved /\ env["TM_SCOPE"] = ScopeHtml
    /\ procs = <<>> /\ stdout = <<>>

\* C6: the summary quiet mode prints is empty when no issue is an error or a
\* warning; otherwise it is the error part (1 error, n errors) and the warning
\* part (1 warning, n warnings), each left out when its count is 0, errors
\* first, joined by a comma and a space, followed by the hint.
C6_QuietSummaryString ==
    (Mode = "quiet" /\ Done /\ status = "returned")
        => stdout = <<[text |-> ExpectedSummary]>>

C6_Witness ==
    /\ Mode = "quiet" /\ Done /\ status = "returned"
    /\ NumErrors = 2 /\ NumWarnings = 1
    /\ stdout = << [text |-> "2 errors, 1 warning"
                       \o "\r\rPress Shift-Ctrl-V to view the full report."] >>

\* C7 as stated: every invocation launches exactly one subprocess, and it has
\* completed before anything is written to standard output.
C7_Original ==
    /\ (Done => Len(procs) = 1)
    /\ (stdout # <<>> => ~running)

\* C7 amended: an HTML report run launches exactly one subprocess (the
\* linter); a quiet run that reaches its summary has launched the linter, one
\* clear and one set-mark per issue; an autofix run that returns has launched
\* none (no-op) or two (the fix, then the clear).  In every mode all the
\* subprocesses of the run have completed before anything is written to
\* standard output, and none is launched afterwards.
C7_SubprocessesCompleteBeforeOutput ==
    /\ (Done /\ Mode = "full_report" => Len(procs) = 1)
    /\ (Done /\ Mode = "quiet" /\ status = "returned"
           => Len(procs) = 2 + Len(issues))
    /\ (Done /\ Mode = "fix" /\ status = "returned" => Len(procs) \in {0, 2})
    /\ (stdout # <<>> => ~running /\ Done)

C7_Witness ==
    /\ Mode = "quiet" /\ Done /\ status = "returned"
    /\ Len(issues) = 2 /\ Len(procs) = 4
    /\ stdout # <<>> /\ ~running

\* C8: the flag hasErrorsOrWarnings handed to the report template is true
\* exactly when the number of issues with isError plus the number with
\* isWarning is positive.
C8_HasIssuesFlag ==
    (Mode = "full_report" /\ Done /\ status = "returned")
        => /\ IsPage(stdout, {"report.html"})
           /\ stdout[1].context.issues = issues
           /\ stdout[1].context.hasErrorsOrWarnings
                  = (NumErrors + NumWarnings > 0)

C8_Witness ==
    /\ Mode = "full_report" /\ Done /\ status = "returned"
    /\ Len(issues) = 2 /\ NumErrors = 0 /\ NumWarnings = 1
    /\ stdout[1].context.hasErrorsOrWarnings = TRUE

\* C9: quiet mode on an unsaved buffer, the linter having returned its issues:
\* the run ends with the KeyError of update_gutter_marks after the one linter
\* run, with no editor-helper call and nothing on standard output.
C9_QuietUnsavedFailsInGutterUpdater ==
    (Mode = "quiet" /\ ~Saved /\ err = <<>>
        /\ pc \notin {"validate", "validator.run", "update_gutter_marks"})
        => /\ Done /\ status = "KeyError"
           /\ MateCalls = <<>>
           /\ Len(LinterCalls) = 1 /\ Len(procs) = 1
           /\ stdout = <<>>

C9_Witness ==
    /\ Mode = "quiet" /\ ~Saved /\ Done /\ status = "KeyError"
    /\ issues = <<>> /\ MateCalls = <<>> /\ stdout = <<>>
    /\ Len(procs) = 1

\* C10: autofix on a saved source.js file: the subprocesses are the linter's
\* fix on that file and then, only when the fix returned normally, one clear
\* on the same file; no set-mark, nothing on standard output; when the fix
\* fails there is no clear.
C10_FixThenClear ==
    (Mode = "fix" /\ Saved /\ StartsWith(env["TM_SCOPE"], ScopeJs)
        /\ pc # "fix")
        => /\ stdout = <<>>
           /\ \A i \in DOMAIN procs : ~IsSetMarkCall(procs[i])
           /\ Len(LinterCalls) = 1
           /\ procs[1].call = "fix" /\ procs[1].filename = TargetFile
           /\ IF pc = "validator.fix" \/ err # <<>>
              THEN procs = <<procs[1]>>
              ELSE procs = <<procs[1], ExpectedClearMark>>
           /\ (err # <<>> => Done /\ status = "ValidateError")
           /\ (Done /\ err = <<>> => status = "returned" /\ ~running)

C10_Witness ==
    /\ Mode = "fix" /\ Done /\ status = "returned"
    /\ Len(procs) = 2 /\ procs[1].call = "fix"
    /\ procs[2] = ExpectedClearMark

====
